---- MODULE Spec2Model ----
(***************************************************************************)
(* Model of src/route_fairness.py: the RouteFairness object (route_table,  *)
(* pickup_table), path resolution at load time (get_path), per-pickup      *)
(* min-max normalisation (score_pickups), per-route aggregation            *)
(* (score_routes) and their composition (compute_difficulty).              *)
(*                                                                         *)
(* Numbers.  Raw path metrics are small integers.  Difficulties are exact  *)
(* rationals <<n, d>> in lowest terms with d > 0 (Python computes them as  *)
(* floats; rounding is not modelled).  Python's None is the value None     *)
(* below, which is outside the range of every metric.  An exception is     *)
(* recorded by its class name in last.outcome.                             *)
(***************************************************************************)
EXTENDS Integers, Sequences, FiniteSets, TLC

\* ------------------------------------------------------------ bounds
MaxPickups == 3
MaxScoreRoutes == 2

\* ------------------------------------------------------------ values
\* None stands for Python's None and Inf for math.inf: the first is below
\* and the second above every metric and every raw indicator value.
None == -1
Inf == 1000

\* The route files loaded: both routes with a known destination, one route
\* with a destination outside the fixed set, and a file without route r2.
RouteIds == {"r1", "r2"}
RouteFiles ==
    { [r1 |-> "Locust", r2 |-> "Valley"],
      [r1 |-> "Locust", r2 |-> "Other"],
      [r1 |-> "Valley"] }
LOCUST_ST_COORDS == "LOCUST_ST_COORDS"
VALLEY_RECYC_COORDS == "VALLEY_RECYC_COORDS"

difficulty_indicators == {"ascent", "descent", "distance"}

\* The argument lists score_pickups and compute_difficulty are called with:
\* one indicator, and the three indicators of the command line (line 224).
ArgLists ==
    { <<"descent">>, <<"ascent", "descent", "distance">> }

\* ------------------------------------------------------------ rationals
RECURSIVE GCD(_, _)
GCD(a, b) == IF b = 0 THEN a ELSE GCD(b, a % b)

Abs(x) == IF x < 0 THEN -x ELSE x

\* n / d for d # 0, in lowest terms with a positive denominator
Frac(n, d) ==
    LET g == GCD(Abs(n), Abs(d))
        s == IF d < 0 THEN -1 ELSE 1
    IN  << (s * n) \div g, (s * d) \div g >>

Zero == <<0, 1>>
One == <<1, 1>>
RatAdd(x, y) == Frac(x[1] * y[2] + y[1] * x[2], x[2] * y[2])
RatDivInt(x, k) == Frac(x[1], x[2] * k)

\* ------------------------------------------------------------ state
VARIABLES
    route_table,    \* self.route_table: route id -> row
    pickup_table,   \* self.pickup_table: pickup id (1..n, file order) -> row
    pc,             \* "init" inside __init__'s loop, "ready", "failed"
    next_pickup,    \* position of __init__'s loop over pickup_table
    nav_calls,      \* the calls made to Geography.navigate, in order
    num_calls,      \* completed calls of score_routes
    loaded_routes,  \* the keys of route_table when the route file was read
    last            \* the last operation, its arguments and its outcome

vars == <<route_table, pickup_table, pc, next_pickup, nav_calls, num_calls,
          loaded_routes, last>>

ZeroDifficulty == [indicator \in difficulty_indicators |-> Zero]

NoKeyPath == [geometry |-> "unset", ascent |-> None, descent |-> None, distance |-> None]
NoPath == [geometry |-> "None", ascent |-> None, descent |-> None, distance |-> None]

\* The responses of the routing service (Geography.navigate's return value).
NavResults ==
    { [geometry |-> "coordinates", ascent |-> 0, descent |-> 2, distance |-> 3],
      [geometry |-> "coordinates", ascent |-> 1, descent |-> 0, distance |-> 2],
      [geometry |-> "coordinates", ascent |-> 3, descent |-> 1, distance |-> 2] }

NewRoute(dest) == [destination |-> dest, difficulty |-> ZeroDifficulty, num_pickups |-> 0]
NewPickup(id, rid) ==
    [route_id |-> rid, longitude |-> id, latitude |-> 10 + id,
     difficulty |-> ZeroDifficulty, path |-> NoKeyPath]

Init ==
    /\ \E file \in RouteFiles :
          /\ route_table = [r \in DOMAIN file |-> NewRoute(file[r])]
          /\ loaded_routes = DOMAIN file
    /\ \E n \in 0..MaxPickups : \E rid \in [1..n -> RouteIds] :
          /\ pickup_table = [id \in 1..n |-> NewPickup(id, rid[id])]
          /\ pc = IF n = 0 THEN "ready" ELSE "init"
    /\ next_pickup = 1
    /\ nav_calls = <<>>
    /\ num_calls = 0
    /\ last = [op |-> "load", args |-> <<>>, outcome |-> "ok"]


\* ------------------------------------------------------------ get_path
\* Mutant: the route is looked up with a default, as with dict.get.
ResolveDestination_lenient(rt, pickup) ==
    IF pickup.route_id \notin DOMAIN rt THEN "none"
    ELSE LET destination == rt[pickup.route_id].destination
         IN  CASE destination = "Locust" -> LOCUST_ST_COORDS
               [] destination = "Valley" -> LOCUST_ST_COORDS
               [] OTHER -> "none"

\* Mutant: the default case navigates to Locust Street as well.
ResolveDestination_defaultNavigates(rt, pickup) ==
    IF pickup.route_id \notin DOMAIN rt THEN "KeyError"
    ELSE LET destination == rt[pickup.route_id].destination
         IN  CASE destination = "Locust" -> LOCUST_ST_COORDS
               [] destination = "Valley" -> LOCUST_ST_COORDS
               [] OTHER -> LOCUST_ST_COORDS

\* The match statement of get_path: the coordinates navigate is called
\* with, "none" for the default case, "KeyError" when the route lookup of
\* line 103 fails.
ResolveDestination(rt, pickup) ==
    IF pickup.route_id \notin DOMAIN rt THEN "KeyError"
    ELSE LET destination == rt[pickup.route_id].destination
         IN  CASE destination = "Locust" -> LOCUST_ST_COORDS
               [] destination = "Valley" -> LOCUST_ST_COORDS
               [] OTHER -> "none"

\* Lines 102, 105-106, 108-109: the arguments of navigate.
NavCall(pickup, end) ==
    [start |-> <<pickup.longitude, pickup.latitude>>, end |-> end]

\* One iteration of __init__'s loop: get_path on the next pickup.  The
\* iteration for the last pickup ends the construction.
get_path ==
    /\ pc = "init"
    /\ LET id == next_pickup
           pickup == pickup_table[id]
           end == ResolveDestination(route_table, pickup)
           after == IF id = Len(pickup_table) THEN "ready" ELSE "init"
       IN  CASE end = "KeyError" ->
                  /\ pc' = "failed"
                  /\ last' = [op |-> "get_path", args |-> <<>>, outcome |-> "KeyError"]
                  /\ UNCHANGED <<pickup_table, next_pickup, nav_calls>>
             [] end = "none" ->
                  /\ pickup_table' = [pickup_table EXCEPT ![id].path = NoPath]
                  /\ pc' = after
                  /\ next_pickup' = id + 1
                  /\ last' = [op |-> "get_path", args |-> <<>>, outcome |-> "ok"]
                  /\ UNCHANGED nav_calls
             [] OTHER ->
                  /\ nav_calls' = Append(nav_calls, NavCall(pickup, end))
                  /\ \/ \E path \in NavResults :
                           /\ pickup_table' = [pickup_table EXCEPT ![id].path = path]
                           /\ pc' = after
                           /\ next_pickup' = id + 1
                           /\ last' = [op |-> "get_path", args |-> <<>>, outcome |-> "ok"]
                     \/ /\ pc' = "failed"
                        /\ last' = [op |-> "get_path", args |-> <<>>,
                                    outcome |-> "RoutingError"]
                        /\ UNCHANGED <<pickup_table, next_pickup>>
    /\ UNCHANGED <<route_table, num_calls, loaded_routes>>

\* ------------------------------------------------------------ score_pickups
\* Mutant: the descent indicator without the factor -1.
IndicatorValue_descentNotNegated(indicator, pickup) ==
    CASE indicator = "ascent" -> pickup.path.ascent
      [] indicator = "descent" -> pickup.path.descent
      [] indicator = "distance" -> pickup.path.distance

\* difficulty_indicators[indicator][0] applied to a pickup whose path
\* metric is a number.
IndicatorValue(indicator, pickup) ==
    CASE indicator = "ascent" -> pickup.path.ascent
      [] indicator = "descent" -> pickup.path.descent * (-1)
      [] indicator = "distance" -> pickup.path.distance

\* The first loop of score_pickups raises TypeError on a None metric
\* (None * -1, None < inf).
RaisesTypeError(pt, indicator) ==
    \E id \in DOMAIN pt : pt[id].path[indicator] = None

\* Mutant: the second comparison of the scan made an elif of the first.
RECURSIVE ScanMinMax_elif(_, _, _, _, _)
ScanMinMax_elif(pt, indicator, id, min, max) ==
    IF id > Len(pt) THEN <<min, max>>
    ELSE LET score == IndicatorValue(indicator, pt[id])
         IN  ScanMinMax_elif(pt, indicator, id + 1,
                             IF score < min THEN score ELSE min,
                             IF score < min THEN max
                             ELSE IF score > max THEN score ELSE max)

\* The first loop of score_pickups from pickup id on: <<min, max>>.
RECURSIVE ScanMinMax(_, _, _, _, _)
ScanMinMax(pt, indicator, id, min, max) ==
    IF id > Len(pt) THEN <<min, max>>
    ELSE LET score == IndicatorValue(indicator, pt[id])
         IN  ScanMinMax(pt, indicator, id + 1,
                        IF score < min THEN score ELSE min,
                        IF score > max THEN score ELSE max)

\* Mutant: the score is not shifted by the minimum.
Normalize_unshifted(score, min, max) == Frac(score, max - min)

\* Line 140.
Normalize(score, min, max) == Frac(score - min, max - min)

\* One iteration of the loop over indicators.
ScoreIndicator(pt, indicator) ==
    IF RaisesTypeError(pt, indicator) THEN [table |-> pt, outcome |-> "TypeError"]
    ELSE LET mm == ScanMinMax(pt, indicator, 1, Inf, -Inf)
             min == mm[1]
             max == mm[2]
         IN  IF Len(pt) = 0 THEN [table |-> pt, outcome |-> "ok"]
             ELSE IF max - min = 0
             THEN [table |-> pt, outcome |-> "ZeroDivisionError"]
             ELSE [table |->
                      [id \in DOMAIN pt |->
                          [pt[id] EXCEPT !.difficulty[indicator] =
                              Normalize(IndicatorValue(indicator, pt[id]), min, max)]],
                   outcome |-> "ok"]

RECURSIVE ScoreFrom(_, _, _)
ScoreFrom(pt, args, i) ==
    IF i > Len(args) THEN [table |-> pt, outcome |-> "ok"]
    ELSE LET r == ScoreIndicator(pt, args[i])
         IN  IF r.outcome # "ok" THEN r ELSE ScoreFrom(r.table, args, i + 1)

ScorePickups(pt, args) ==
    IF \E i \in 1..Len(args) : args[i] \notin difficulty_indicators
    THEN [table |-> pt, outcome |-> "KeyError"]
    ELSE ScoreFrom(pt, args, 1)

score_pickups ==
    /\ pc = "ready"
    /\ \E args \in ArgLists :
          LET r == ScorePickups(pickup_table, args)
          IN  /\ pickup_table' = r.table
              /\ last' = [op |-> "score_pickups", args |-> args, outcome |-> r.outcome]
    /\ UNCHANGED <<route_table, pc, next_pickup, nav_calls, num_calls, loaded_routes>>

\* ------------------------------------------------------------ score_routes
\* Mutant: the pickup counter is not incremented.
AddPickup_notCounted(route, pickup) ==
    [route EXCEPT
        !.difficulty = [indicator \in DOMAIN pickup.difficulty |->
                           RatAdd(@[indicator], pickup.difficulty[indicator])]]

\* Lines 153-156.
AddPickup(route, pickup) ==
    [route EXCEPT
        !.num_pickups = @ + 1,
        !.difficulty = [indicator \in DOMAIN pickup.difficulty |->
                           RatAdd(@[indicator], pickup.difficulty[indicator])]]

\* The first loop of score_routes from pickup id on.
RECURSIVE Accumulate(_, _, _)
Accumulate(rt, pt, id) ==
    IF id > Len(pt) THEN rt
    ELSE Accumulate([rt EXCEPT ![pt[id].route_id] = AddPickup(@, pt[id])], pt, id + 1)

Average(route) ==
    [route EXCEPT !.difficulty = [indicator \in DOMAIN @ |->
                                     RatDivInt(@[indicator], route.num_pickups)]]

\* Mutant: a route with a single pickup counts as empty.
EmptyRoutes_singleton(rt) == { id \in DOMAIN rt : rt[id].num_pickups <= 1 }

\* Lines 159-164: the routes collected in empty.
EmptyRoutes(rt) == { id \in DOMAIN rt : rt[id].num_pickups = 0 }

\* Mutant: the accumulators are reset before the pickups are summed.
ScoreRoutes_reset(rt, pt) ==
    LET fresh == [id \in DOMAIN rt |->
                     [rt[id] EXCEPT !.difficulty = ZeroDifficulty, !.num_pickups = 0]]
        summed == Accumulate(fresh, pt, 1)
        empty == EmptyRoutes(summed)
    IN  [id \in DOMAIN summed \ empty |-> Average(summed[id])]

ScoreRoutes(rt, pt) ==
    LET summed == Accumulate(rt, pt, 1)
        empty == EmptyRoutes(summed)
    IN  [id \in DOMAIN summed \ empty |-> Average(summed[id])]

score_routes ==
    /\ pc = "ready"
    /\ num_calls < MaxScoreRoutes
    /\ route_table' = ScoreRoutes(route_table, pickup_table)
    /\ num_calls' = num_calls + 1
    /\ last' = [op |-> "score_routes", args |-> <<>>, outcome |-> "ok"]
    /\ UNCHANGED <<pickup_table, pc, next_pickup, nav_calls, loaded_routes>>

\* ------------------------------------------------------------ compute_difficulty
compute_difficulty ==
    /\ pc = "ready"
    /\ num_calls < MaxScoreRoutes
    /\ \E args \in ArgLists :
          LET r == ScorePickups(pickup_table, args)
          IN  /\ pickup_table' = r.table
              /\ last' = [op |-> "compute_difficulty", args |-> args,
                          outcome |-> r.outcome]
              /\ IF r.outcome = "ok"
                 THEN /\ route_table' = ScoreRoutes(route_table, r.table)
                      /\ num_calls' = num_calls + 1
                 ELSE UNCHANGED <<route_table, num_calls>>
    /\ UNCHANGED <<pc, next_pickup, nav_calls, loaded_routes>>

Next == get_path \/ score_pickups \/ score_routes \/ compute_difficulty

Spec == Init /\ [][Next]_vars


\* ------------------------------------------------------------ properties
Pickups == DOMAIN pickup_table

\* score_pickups has returned (alone or inside compute_difficulty)
ScorePickupsReturned ==
    last.op \in {"score_pickups", "compute_difficulty"} /\ last.outcome = "ok"

\* score_routes has returned (alone or inside compute_difficulty)
ScoreRoutesReturned ==
    \/ last.op = "score_routes"
    \/ last.op = "compute_difficulty" /\ last.outcome = "ok"

Requested == { last.args[i] : i \in 1..Len(last.args) }

\* The raw value of an indicator as the design states it: the path's
\* ascent, minus one times the path's descent, the path's distance.
RawValue(indicator, id) ==
    IF indicator = "descent"
    THEN 0 - pickup_table[id].path.descent
    ELSE pickup_table[id].path[indicator]

HasPaths == \A id \in Pickups : pickup_table[id].path \in NavResults
RawValues(indicator) == { RawValue(indicator, id) : id \in Pickups }
SetMin(S) == CHOOSE x \in S : \A y \in S : x <= y
SetMax(S) == CHOOSE x \in S : \A y \in S : x >= y
RatEq(x, y) == x[1] * y[2] = y[1] * x[2]
RatLeq(x, y) == x[1] * y[2] <= y[1] * x[2]
RatLess(x, y) == x[1] * y[2] < y[1] * x[2]
Difficulty(id, indicator) == pickup_table[id].difficulty[indicator]

\* C1: after score_pickups returns, every requested indicator whose raw
\* values are not all identical has, for every pickup, a stored difficulty
\* between 0 and 1 inclusive.
C1_DifficultyInUnitInterval ==
    ScorePickupsReturned =>
        \A indicator \in Requested :
            Cardinality(RawValues(indicator)) > 1 =>
                \A id \in Pickups :
                    /\ RatLeq(Zero, Difficulty(id, indicator))
                    /\ RatLeq(Difficulty(id, indicator), One)

\* C1 witness: score_pickups returned and stored a difficulty strictly
\* between 0 and 1 for a requested indicator.
C1_Witness ==
    /\ ScorePickupsReturned
    /\ \E indicator \in Requested : \E id \in Pickups :
          /\ Cardinality(RawValues(indicator)) > 1
          /\ RatLess(Zero, Difficulty(id, indicator))
          /\ RatLess(Difficulty(id, indicator), One)

\* C2: after score_pickups returns, for a requested indicator whose raw
\* values are not all equal, a pickup at the minimum raw value has
\* difficulty exactly 0, one at the maximum exactly 1, and every other
\* pickup (raw - min) / (max - min).
C2_MinMaxNormalisation ==
    ScorePickupsReturned =>
        \A indicator \in Requested :
            Cardinality(RawValues(indicator)) > 1 =>
                LET lo == SetMin(RawValues(indicator))
                    hi == SetMax(RawValues(indicator))
                IN  \A id \in Pickups :
                        LET raw == RawValue(indicator, id)
                            d == Difficulty(id, indicator)
                        IN  /\ raw = lo => d = Zero
                            /\ raw = hi => d = One
                            /\ d[2] > 0
                            /\ d[1] * (hi - lo) = (raw - lo) * d[2]

\* C2 witness: three pickups scored together on an indicator, one at the
\* minimum, one at the maximum and one strictly between them.
C2_Witness ==
    /\ ScorePickupsReturned
    /\ \E indicator \in Requested : \E p, q, m \in Pickups :
          /\ RawValue(indicator, p) < RawValue(indicator, m)
          /\ RawValue(indicator, m) < RawValue(indicator, q)
          /\ Difficulty(p, indicator) = Zero
          /\ Difficulty(q, indicator) = One
          /\ RatLess(Zero, Difficulty(m, indicator))
          /\ RatLess(Difficulty(m, indicator), One)

\* C5 (as claimed): when all pickups have the same raw value for a
\* requested indicator (a single pickup included), score_pickups completes
\* without an error and stores 0 as that indicator's difficulty for every
\* pickup.
C5_DegenerateScoresZero ==
    \A i \in 1..Len(last.args) :
        ( /\ last.op \in {"score_pickups", "compute_difficulty"}
          /\ HasPaths
          /\ Cardinality(RawValues(last.args[i])) = 1 )
        => /\ last.outcome = "ok"
           /\ \A id \in Pickups : Difficulty(id, last.args[i]) = Zero

\* C7: after score_pickups returns with descent requested (raw descents
\* not all equal), a pickup with a larger raw descent has a strictly lower
\* descent difficulty; the largest raw descent scores 0, the smallest 1.
C7_DescentNegated ==
    (ScorePickupsReturned /\ "descent" \in Requested) =>
        LET descent(id) == pickup_table[id].path.descent
            all == { descent(id) : id \in Pickups }
        IN  Cardinality(all) > 1 =>
                \A p \in Pickups :
                    /\ \A q \in Pickups :
                          descent(p) > descent(q) =>
                              RatLess(Difficulty(p, "descent"), Difficulty(q, "descent"))
                    /\ descent(p) = SetMax(all) => Difficulty(p, "descent") = Zero
                    /\ descent(p) = SetMin(all) => Difficulty(p, "descent") = One

\* C7 witness: three pickups with raw descents d1 > d2 > d3 were scored:
\* difficulty 0 for d1, strictly between for d2, 1 for d3.
C7_Witness ==
    /\ ScorePickupsReturned /\ "descent" \in Requested
    /\ \E p, m, q \in Pickups :
          /\ pickup_table[p].path.descent > pickup_table[m].path.descent
          /\ pickup_table[m].path.descent > pickup_table[q].path.descent
          /\ Difficulty(p, "descent") = Zero
          /\ RatLess(Difficulty(p, "descent"), Difficulty(m, "descent"))
          /\ RatLess(Difficulty(m, "descent"), Difficulty(q, "descent"))
          /\ Difficulty(q, "descent") = One


\* ------------------------------------------------------------ route properties
PickupsOf(r) == { id \in Pickups : pickup_table[id].route_id = r }
Referenced == { pickup_table[id].route_id : id \in Pickups }

\* The sum of an indicator's difficulty over a set of pickups of table pt
RECURSIVE SumOver(_, _, _)
SumOver(pt, ids, indicator) ==
    IF ids = {} THEN Zero
    ELSE LET id == CHOOSE x \in ids : TRUE
         IN  RatAdd(pt[id].difficulty[indicator], SumOver(pt, ids \ {id}, indicator))

\* The arithmetic mean of an indicator over the pickups of route r
MeanOf(r, indicator) ==
    RatDivInt(SumOver(pickup_table, PickupsOf(r), indicator), Cardinality(PickupsOf(r)))

\* C3 (as claimed): after score_routes returns, every route left in
\* route_table has, for every indicator, the arithmetic mean of that
\* indicator's difficulty over exactly the pickups of the route.
C3_RouteDifficultyIsMean ==
    ScoreRoutesReturned =>
        \A r \in DOMAIN route_table : \A indicator \in difficulty_indicators :
            /\ PickupsOf(r) # {}
            /\ RatEq(route_table[r].difficulty[indicator], MeanOf(r, indicator))

\* C4: after score_routes returns, route_table holds exactly the routes
\* that at least one pickup refers to.
C4_ExactlyReferencedRoutes ==
    ScoreRoutesReturned =>
        /\ \A r \in loaded_routes : PickupsOf(r) = {} => r \notin DOMAIN route_table
        /\ \A r \in loaded_routes : PickupsOf(r) # {} => r \in DOMAIN route_table
        /\ DOMAIN route_table = Referenced

\* C4 witness: score_routes returned, having removed a loaded route without
\* pickups and kept one with pickups.
C4_Witness ==
    /\ ScoreRoutesReturned
    /\ \E r \in loaded_routes : PickupsOf(r) = {} /\ r \notin DOMAIN route_table
    /\ \E r \in loaded_routes : PickupsOf(r) # {} /\ r \in DOMAIN route_table

Unscored == \A id \in Pickups : pickup_table[id].difficulty = ZeroDifficulty

\* C9: the first call of score_routes, made while no pickup difficulty has
\* been stored, raises no error, leaves every remaining route with
\* difficulty 0 for every indicator and with its pickups counted, and
\* removes the routes without pickups.
C9_UnscoredAggregation ==
    (last.op = "score_routes" /\ num_calls = 1 /\ Unscored) =>
        /\ last.outcome = "ok"
        /\ DOMAIN route_table = Referenced
        /\ \A r \in DOMAIN route_table :
              /\ route_table[r].difficulty = ZeroDifficulty
              /\ route_table[r].num_pickups = Cardinality(PickupsOf(r))

\* C9 witness: score_routes ran first on a loaded object with pickups that
\* have paths; a route was kept with zero difficulty and one was removed.
C9_Witness ==
    /\ last.op = "score_routes" /\ num_calls = 1 /\ Unscored
    /\ Cardinality(Pickups) >= 2 /\ HasPaths
    /\ loaded_routes \ DOMAIN route_table # {}
    /\ \E r \in DOMAIN route_table :
          route_table[r].difficulty = ZeroDifficulty /\ route_table[r].num_pickups >= 2

\* C10: score_routes never resets the accumulators.  After k >= 1 calls a
\* remaining route's num_pickups is k times the number of its pickups; a
\* call adds the pickups' current difficulty to the route's previous
\* (averaged) difficulty and divides by the cumulative num_pickups; the
\* second and later calls leave the set of routes unchanged.
C10_CountAccumulates ==
    num_calls >= 1 =>
        \A r \in DOMAIN route_table :
            route_table[r].num_pickups = num_calls * Cardinality(PickupsOf(r))

C10_StepAccumulates ==
    num_calls' = num_calls + 1 =>
        /\ num_calls >= 1 => DOMAIN route_table' = DOMAIN route_table
        /\ \A r \in DOMAIN route_table' : \A indicator \in difficulty_indicators :
              RatEq(route_table'[r].difficulty[indicator],
                    RatDivInt(RatAdd(route_table[r].difficulty[indicator],
                                     SumOver(pickup_table', PickupsOf(r), indicator)),
                              (num_calls + 1) * Cardinality(PickupsOf(r))))

\* C10: both parts, the count in every state and the accumulation in every
\* step that completes a call of score_routes.
C10_AccumulatorsNeverReset ==
    [](C10_CountAccumulates) /\ [][C10_StepAccumulates]_vars

\* C10 witness: after two calls a route's difficulty differs from the mean
\* of its pickups' difficulty, and its num_pickups is twice its pickups.
C10_Witness ==
    /\ num_calls = 2
    /\ \E r \in DOMAIN route_table : \E indicator \in difficulty_indicators :
          /\ route_table[r].num_pickups = 2 * Cardinality(PickupsOf(r))
          /\ ~RatEq(route_table[r].difficulty[indicator], MeanOf(r, indicator))


\* ------------------------------------------------------------ load properties
KnownClassifications == {"Locust", "Valley"}

\* get_path has run to its end on pickup id
Resolved(id) == id < next_pickup
\* get_path raised on pickup id
Raised(id) == pc = "failed" /\ id = next_pickup

Classified(id) == pickup_table[id].route_id \in loaded_routes
Classification(id) == route_table[pickup_table[id].route_id].destination

Coordinates(id) == <<pickup_table[id].longitude, pickup_table[id].latitude>>
NavCallsFrom(id) == { i \in 1..Len(nav_calls) : nav_calls[i].start = Coordinates(id) }

\* C6: get_path on a pickup whose route's classification is not "Locust" or
\* "Valley" sets the no-path result, makes no call of navigate and raises
\* no error; for a known classification it calls navigate exactly once,
\* with the pickup's coordinates.
C6_UnknownClassificationNoPath ==
    /\ \A id \in Pickups :
          (Classified(id) /\ Classification(id) \notin KnownClassifications) =>
              /\ ~Raised(id)
              /\ NavCallsFrom(id) = {}
              /\ Resolved(id) => pickup_table[id].path = NoPath
    /\ \A id \in Pickups :
          (Classified(id) /\ Classification(id) \in KnownClassifications) =>
              /\ (Resolved(id) \/ Raised(id)) => Cardinality(NavCallsFrom(id)) = 1
              /\ Resolved(id) => pickup_table[id].path \in NavResults
    /\ \A i \in 1..Len(nav_calls) :
          \E id \in Pickups : nav_calls[i].start = Coordinates(id)

\* C6 witness: the construction resolved a pickup of an unknown
\* classification (no path, no call) and one of a known classification
\* (one call).
C6_Witness ==
    /\ pc = "ready"
    /\ \E id \in Pickups :
          /\ Classification(id) \notin KnownClassifications
          /\ pickup_table[id].path = NoPath
          /\ NavCallsFrom(id) = {}
    /\ \E id \in Pickups :
          /\ Classification(id) \in KnownClassifications
          /\ Cardinality(NavCallsFrom(id)) = 1

Dangling == { id \in Pickups : pickup_table[id].route_id \notin loaded_routes }

\* C8: with a pickup whose route_id is no loaded route, the construction
\* never succeeds (it ends in a fatal error raised by get_path) and no
\* scoring operation runs; when the construction succeeds every pickup has
\* its path set and a route_id that is a key of route_table.
C8_DanglingRouteIsFatal ==
    /\ Dangling # {} =>
          /\ pc # "ready"
          /\ last.op \in {"load", "get_path"}
          /\ num_calls = 0
          /\ pc = "init" => next_pickup \in Pickups
    /\ pc = "ready" =>
          \A id \in Pickups :
              /\ pickup_table[id].path.geometry # "unset"
              /\ pickup_table[id].route_id \in DOMAIN route_table

\* C8 witness: the construction failed with the KeyError of the route
\* lookup, on a pickup that refers to a route that was not loaded.
C8_Witness ==
    /\ pc = "failed" /\ last.outcome = "KeyError"
    /\ next_pickup \in Dangling
    /\ next_pickup > 1

====
